---------------------------- MODULE Spec2Model ----------------------------
(***************************************************************************)
(* A model of pdf_parse_rishi_shirish_shah.py: the regular expressions of  *)
(* the pattern library, the field extractor extract_fields_from_text, the  *)
(* table normaliser extract_transactions_tables and the assembler          *)
(* parse_statement.                                                        *)
(*                                                                         *)
(* Python values are modelled as follows.  A str is a TLA+ string.  The    *)
(* values stored in the result dict are tagged records: None, Str(s) and   *)
(* Dict2(start, end).  A dict is a function whose DOMAIN is its key set.   *)
(* A confidence 0.95 / 0.9 / 0.6 is the integer number of hundredths.      *)
(* The en-dash of the patterns is written EnDash.                          *)
(***************************************************************************)
EXTENDS Integers, Sequences, FiniteSets, TLC

VARIABLES
    pc,                 \* which function runs / has returned
    text,               \* the text handed to extract_fields_from_text, or parse_statement's local
    out,                \* the dict extract_fields_from_text returns
    pdf,                \* the document: what the backends give for it
    use_ocr_fallback,   \* parse_statement's parameter
    OCR_AVAILABLE,      \* the module-level flag
    ocr_calls,          \* how many times ocr_pdf_text was called
    res,                \* the list extract_transactions_tables returns
    result,             \* the dict parse_statement returns
    p,                  \* the number of the page the loop of extract_transactions_tables is at
    call                \* the function that was called

vars == <<pc, text, out, pdf, use_ocr_fallback, OCR_AVAILABLE, ocr_calls, res, result, p, call>>

-----------------------------------------------------------------------------
(* Characters *)

Digit == {"0", "1", "2", "3", "4", "5", "6", "7", "8", "9"}

UpperCase == "ABCDEFGHIJKLMNOPQRSTUVWXYZ"

LowerCase == "abcdefghijklmnopqrstuvwxyz"

Letter == {SubSeq(UpperCase, i, i) : i \in 1..26} \cup {SubSeq(LowerCase, i, i) : i \in 1..26}

\* \w of re
WordChar == Letter \cup Digit \cup {"_"}

\* \s of re, and what str.strip() strips
Space == {" ", "\n", "\t", "\r"}

EnDash == "~"

LowerOf == [c \in {SubSeq(UpperCase, i, i) : i \in 1..26} |->
              LET i == CHOOSE j \in 1..26 : SubSeq(UpperCase, j, j) = c IN SubSeq(LowerCase, i, i)]

UpperOf == [c \in {SubSeq(LowerCase, i, i) : i \in 1..26} |->
              LET i == CHOOSE j \in 1..26 : SubSeq(LowerCase, j, j) = c IN SubSeq(UpperCase, i, i)]

LowerChar(c) == IF c \in DOMAIN LowerOf THEN LowerOf[c] ELSE c

UpperChar(c) == IF c \in DOMAIN UpperOf THEN UpperOf[c] ELSE c

At(s, i) == SubSeq(s, i, i)

\* str.upper()
RECURSIVE Upper(_)
Upper(s) == IF s = "" THEN "" ELSE UpperChar(Head(s)) \o Upper(Tail(s))

\* equality of two strings under re.IGNORECASE
EqIgnoreCase(a, b) ==
    /\ Len(a) = Len(b)
    /\ \A k \in 1..Len(a) : LowerChar(At(a, k)) = LowerChar(At(b, k))

-----------------------------------------------------------------------------
(* Regular expressions: the syntax trees of the patterns, and re's         *)
(* backtracking matcher.  Every search of the program that involves        *)
(* letters passes re.IGNORECASE, so a literal is matched case-insensitively.*)

Lit(s) == [t |-> "lit", s |-> s]

\* a character class
Set(c) == [t |-> "set", c |-> c]

Cat(a) == [t |-> "cat", a |-> a]

Alt(a) == [t |-> "alt", a |-> a]

\* r? (greedy)
Opt(r) == [t |-> "opt", r |-> r]

\* c{lo,hi}, c* and c+ for a character class c (greedy)
Rep(c, lo, hi) == [t |-> "rep", c |-> c, lo |-> lo, hi |-> hi]

Star(c) == [t |-> "many", c |-> c, lo |-> 0]

Plus(c) == [t |-> "many", c |-> c, lo |-> 1]

Grp(k, r) == [t |-> "grp", k |-> k, r |-> r]

\* \b
WB == [t |-> "wb"]

IsWordAt(s, i) == i >= 1 /\ i <= Len(s) /\ At(s, i) \in WordChar

\* how many characters of s from index i on are in the class c, at most max
RunLength(s, i, c, max) ==
    LET top == IF Len(s) - i + 1 < max THEN Len(s) - i + 1 ELSE max
        runs == {j \in 0..top : \A t \in 0..(j - 1) : At(s, i + t) \in c}
    IN  CHOOSE j \in runs : \A k \in runs : k <= j

\* a greedy repetition that can take k characters and needs lo: the longest first
RECURSIVE Greedy(_, _, _, _)
Greedy(i, lo, k, g) ==
    IF k < lo THEN <<>> ELSE <<[e |-> i + k, c |-> g]>> \o Greedy(i, lo, k - 1, g)

\* M(r, s, i, c): every way r matches s from index i, in the order re's
\* backtracking tries them; each with the index after the match and the groups.
\* A group is <<>> while unset and <<captured>> once set.
RECURSIVE M(_, _, _, _)
M(r, s, i, c) ==
    LET here == <<[e |-> i, c |-> c]>>
        \* nxt from every place of R on
        Then(R, nxt) ==
            IF R = <<>> THEN <<>>
            ELSE IF Len(R) = 1 THEN M(nxt, s, R[1].e, R[1].c)
            ELSE LET f[k \in 0..Len(R)] ==
                         IF k = 0 THEN <<>> ELSE f[k - 1] \o M(nxt, s, R[k].e, R[k].c)
                 IN  f[Len(R)]
    IN
    CASE r.t = "lit" ->
           IF i + Len(r.s) - 1 <= Len(s) /\ EqIgnoreCase(SubSeq(s, i, i + Len(r.s) - 1), r.s)
           THEN <<[e |-> i + Len(r.s), c |-> c]>> ELSE <<>>
      [] r.t = "set" ->
           IF i <= Len(s) /\ At(s, i) \in r.c THEN <<[e |-> i + 1, c |-> c]>> ELSE <<>>
      [] r.t = "wb" ->
           IF IsWordAt(s, i - 1) # IsWordAt(s, i) THEN here ELSE <<>>
      [] r.t = "cat" ->
           \* the first half of the sequence, then the second half from where it ended
           LET n == Len(r.a)
               h == n \div 2
           IN  IF n = 0 THEN here
               ELSE IF n = 1 THEN M(r.a[1], s, i, c)
               ELSE Then(M(Cat(SubSeq(r.a, 1, h)), s, i, c), Cat(SubSeq(r.a, h + 1, n)))
      [] r.t = "alt" ->
           \* the alternatives from left to right
           LET n == Len(r.a)
               h == n \div 2
           IN  IF n = 0 THEN <<>>
               ELSE IF n = 1 THEN M(r.a[1], s, i, c)
               ELSE M(Alt(SubSeq(r.a, 1, h)), s, i, c) \o M(Alt(SubSeq(r.a, h + 1, n)), s, i, c)
      [] r.t = "opt" -> M(r.r, s, i, c) \o here
      [] r.t = "rep" -> Greedy(i, r.lo, RunLength(s, i, r.c, r.hi), c)
      [] r.t = "many" -> Greedy(i, r.lo, RunLength(s, i, r.c, Len(s)), c)
      [] r.t = "grp" ->
           LET R == M(r.r, s, i, c)
               f[k \in 0..Len(R)] ==
                   IF k = 0 THEN <<>>
                   ELSE Append(f[k - 1],
                               [e |-> R[k].e,
                                c |-> [R[k].c EXCEPT ![r.k] = <<SubSeq(s, i, R[k].e - 1)>>]])
           IN  f[Len(R)]

NoMatch == [m |-> FALSE]

\* re.search(r, s, re.IGNORECASE) for a pattern of n groups: the leftmost match,
\* with group(0) and groups().
\* groups() of a pattern of n groups before any group is set
RECURSIVE NoGroups(_)
NoGroups(n) == IF n = 0 THEN <<>> ELSE Append(NoGroups(n - 1), <<>>)

Search(r, n, s) ==
    LET starts == {i \in 1..(Len(s) + 1) : M(r, s, i, NoGroups(n)) # <<>>}
    IN  IF starts = {} THEN NoMatch
        ELSE LET i == CHOOSE j \in starts : \A k \in starts : j <= k
                 R == M(r, s, i, NoGroups(n))
             IN  [m |-> TRUE, group0 |-> SubSeq(s, i, R[1].e - 1), groups |-> R[1].c]

-----------------------------------------------------------------------------
(* The pattern library *)

D(lo, hi) == Rep(Digit, lo, hi)

S0 == Star(Space)

S1 == Plus(Space)

MonthOrNumber ==
    Alt(<<Lit("Jan"), Lit("Feb"), Lit("Mar"), Lit("Apr"), Lit("May"), Lit("Jun"),
          Lit("Jul"), Lit("Aug"), Lit("Sep"), Lit("Sept"), Lit("Oct"), Lit("Nov"),
          Lit("Dec"), D(1, 2)>>)

\* RE_DATE; its one group is group k of the pattern it is part of
RE_DATE(k) ==
    Grp(k, Alt(<<
        Cat(<<WB, MonthOrNumber, Opt(Set({"."})), S0, D(1, 2), Opt(Set({","})), S0, D(2, 4), WB>>),
        Cat(<<WB, D(1, 2), Lit("/"), D(1, 2), Lit("/"), D(2, 4), WB>>),
        Cat(<<WB, D(4, 4), Lit("-"), D(2, 2), Lit("-"), D(2, 2), WB>> ) >>))

\* RE_LAST4 with no \b after the digits that follow the asterisks
RE_LAST4_Unbounded ==
    Alt(<<
        Cat(<<WB, Alt(<<Lit("Account"), Lit("Acct"), Lit("Card")>>), S0,
              Opt(Alt(<<Cat(<<Lit("ending"), S0, Lit("in")>>), Lit("ending"), Lit("Number"),
                        Lit("No."), Lit("#"), Lit(":")>>)),
              S0, Grp(1, D(4, 4)), WB>>),
        Cat(<<Lit("*"), Plus({"*"}), Grp(2, D(4, 4))>>) >>)

RE_LAST4 ==
    Alt(<<
        Cat(<<WB, Alt(<<Lit("Account"), Lit("Acct"), Lit("Card")>>), S0,
              Opt(Alt(<<Cat(<<Lit("ending"), S0, Lit("in")>>), Lit("ending"), Lit("Number"),
                        Lit("No."), Lit("#"), Lit(":")>>)),
              S0, Grp(1, D(4, 4)), WB>>),
        Cat(<<Lit("*"), Plus({"*"}), Grp(2, D(4, 4)), WB>>) >>)

RE_TOTAL_BAL ==
    Cat(<<
        Alt(<<Cat(<<Lit("Total"), Alt(<<Set(Space), Lit("-")>>), Lit("Balance")>>),
              Cat(<<Lit("Statement"), S1, Lit("Balance")>>),
              Cat(<<Lit("New"), S1, Lit("Balance")>>),
              Cat(<<Lit("Balance"), S1, Lit("Due")>>),
              Cat(<<Lit("Amount"), S1, Lit("Due")>>) >>),
        S0, Set({":"} \cup Space), Opt(Lit("$")), S0,
        Grp(1, Plus({"-", ",", "."} \cup Digit)) >>)

RE_DUE_DATE ==
    Cat(<<
        Alt(<<Cat(<<Lit("Payment"), S1, Lit("Due"), S1, Lit("Date")>>),
              Cat(<<Lit("Due"), S1, Lit("Date")>>),
              Cat(<<Lit("Payment"), S1, Lit("Due")>>) >>),
        S0, Set({":"} \cup Space), S0, RE_DATE(1) >>)

RE_STATEMENT_PERIOD ==
    Cat(<<
        Alt(<<Cat(<<Lit("Statement"), S1, Lit("Period")>>),
              Cat(<<Lit("Billing"), S1, Lit("Period")>>),
              Cat(<<Lit("Statement"), S1, Lit("Date"), Opt(Lit("s"))>>) >>),
        Plus({":", "-", EnDash} \cup Space), S0,
        Grp(1, RE_DATE(2)), S0, Alt(<<Lit("to"), Lit("-"), Lit(EnDash)>>), S0,
        Grp(3, RE_DATE(4)) >>)

CARD_TYPES == <<"VISA", "MASTERCARD", "AMEX", "AMERICAN EXPRESS", "DISCOVER">>

\* the pattern of a network without the two \b
CardTypeSubstring(ct) == Lit(ct)

\* r'\b' + re.escape(ct) + r'\b'
CardTypePattern(ct) == Cat(<<WB, Lit(ct), WB>>)

-----------------------------------------------------------------------------
(* Python values *)

None == [t |-> "None"]

Str(s) == [t |-> "str", v |-> s]

Dict2(a, b) == [t |-> "dict", start |-> a, end |-> b]

\* str.strip()
RECURSIVE LStrip(_)
LStrip(s) == IF s # "" /\ Head(s) \in Space THEN LStrip(Tail(s)) ELSE s

RECURSIVE RStrip(_)
RStrip(s) == IF s # "" /\ At(s, Len(s)) \in Space THEN RStrip(SubSeq(s, 1, Len(s) - 1)) ELSE s

Strip(s) == RStrip(LStrip(s))

\* str.replace(a, b) for a single character a
RECURSIVE Replace(_, _, _)
Replace(s, a, b) ==
    IF s = "" THEN "" ELSE (IF Head(s) = a THEN b ELSE Head(s)) \o Replace(Tail(s), a, b)

\* re.search(r'\d', g)
HasDigit(g) == \E k \in 1..Len(g) : At(g, k) \in Digit

\* re.fullmatch(r'\d{4}', g)
FullMatch4(g) == Len(g) = 4 /\ \A k \in 1..4 : At(g, k) \in Digit

\* the g of m.groups() with "if g": groups() holds None for an unset group
RECURSIVE TruthyUpTo(_, _)
TruthyUpTo(groups, k) ==
    IF k = 0 THEN <<>>
    ELSE TruthyUpTo(groups, k - 1)
         \o (IF groups[k] # <<>> /\ groups[k][1] # "" THEN groups[k] ELSE <<>>)

Truthy(groups) == TruthyUpTo(groups, Len(groups))

-----------------------------------------------------------------------------
(* parse_dates.  dateutil's parser.parse is a library: it is modelled for   *)
(* the date spellings the documents of the model use, a month name with a  *)
(* day and a four-digit year, and two numbers and a four-digit year        *)
(* separated by slashes; on anything else, and on a date that does not     *)
(* exist, it raises.                                                       *)

DigitString == "0123456789"

DigitValue(c) == (CHOOSE k \in 1..10 : At(DigitString, k) = c) - 1

RECURSIVE ToInt(_)
ToInt(s) == IF s = "" THEN 0 ELSE 10 * ToInt(SubSeq(s, 1, Len(s) - 1)) + DigitValue(At(s, Len(s)))

RECURSIVE Decimal(_)
Decimal(n) == IF n < 10 THEN At(DigitString, n + 1) ELSE Decimal(n \div 10) \o At(DigitString, (n % 10) + 1)

RECURSIVE ZeroPad(_, _)
ZeroPad(s, w) == IF Len(s) >= w THEN s ELSE ZeroPad("0" \o s, w)

\* date.isoformat()
IsoFormat(y, m, d) == ZeroPad(Decimal(y), 4) \o "-" \o ZeroPad(Decimal(m), 2) \o "-" \o ZeroPad(Decimal(d), 2)

MonthNames == <<"Jan", "Feb", "Mar", "Apr", "May", "Jun", "Jul", "Aug", "Sep", "Oct", "Nov", "Dec">>

MonthNumber(w) ==
    IF EqIgnoreCase(w, "Sept") THEN 9
    ELSE CHOOSE k \in 1..12 : EqIgnoreCase(w, MonthNames[k])

IsLeap(y) == (y % 4 = 0 /\ y % 100 # 0) \/ y % 400 = 0

DaysIn(y, m) ==
    IF m = 2 THEN (IF IsLeap(y) THEN 29 ELSE 28)
    ELSE IF m \in {4, 6, 9, 11} THEN 30 ELSE 31

NameForm ==
    Cat(<<Grp(1, Alt(<<Lit("Sept"), Lit("Jan"), Lit("Feb"), Lit("Mar"), Lit("Apr"), Lit("May"),
                       Lit("Jun"), Lit("Jul"), Lit("Aug"), Lit("Sep"), Lit("Oct"), Lit("Nov"),
                       Lit("Dec")>>)),
          Opt(Set({"."})), S0, Grp(2, D(1, 2)), Opt(Set({","})), S0, Grp(3, D(4, 4))>>)

SlashForm == Cat(<<Grp(1, D(1, 2)), Lit("/"), Grp(2, D(1, 2)), Lit("/"), Grp(3, D(4, 4))>>)

\* the first way r matches the whole of s
WholeMatch(r, n, s) ==
    LET R == SelectSeq(M(r, s, 1, NoGroups(n)), LAMBDA x : x.e = Len(s) + 1)
    IN  IF R = <<>> THEN NoMatch ELSE [m |-> TRUE, groups |-> R[1].c]

Raises == [ok |-> FALSE]

MakeDate(y, m, d) ==
    IF m \in 1..12 /\ d >= 1 /\ d <= DaysIn(y, m) /\ y >= 1
    THEN [ok |-> TRUE, y |-> y, m |-> m, d |-> d] ELSE Raises

\* parser.parse(datestr, dayfirst=False)
DateutilParse(datestr) ==
    LET a == WholeMatch(NameForm, 3, datestr)
        b == WholeMatch(SlashForm, 3, datestr)
    IN  IF a.m
        THEN MakeDate(ToInt(a.groups[3][1]), MonthNumber(a.groups[1][1]), ToInt(a.groups[2][1]))
        ELSE IF b.m
        THEN LET n1 == ToInt(b.groups[1][1])
                 n2 == ToInt(b.groups[2][1])
                 y  == ToInt(b.groups[3][1])
             IN  IF n1 > 31 THEN Raises
                 ELSE IF n1 > 12 THEN MakeDate(y, n2, n1)
                 ELSE MakeDate(y, n1, n2)
        ELSE Raises

parse_dates(datestr) ==
    LET dt == DateutilParse(datestr)
    IN  IF dt.ok THEN IsoFormat(dt.y, dt.m, dt.d) ELSE Strip(datestr)

-----------------------------------------------------------------------------
(* extract_fields_from_text *)

FIELDS == {"card_type", "last4", "statement_period", "due_date", "total_balance"}

\* out with the empty string in place of None
NewOutEmptyStrings ==
    [card_type |-> Str(""), last4 |-> Str(""), statement_period |-> Str(""), due_date |-> Str(""),
     total_balance |-> Str(""), confidence |-> << >>]

\* out as line 80 builds it
NewOut ==
    [card_type |-> None, last4 |-> None, statement_period |-> None, due_date |-> None,
     total_balance |-> None, confidence |-> << >>]

\* out[f] = v; out['confidence'][f] = conf
Store(o, f, v, conf) == [o EXCEPT ![f] = v, !.confidence = (f :> conf) @@ @]

\* the loop of lines 82-86 from entry k of CARD_TYPES on
RECURSIVE CardTypeFrom(_, _, _)
CardTypeFrom(o, txt, k) ==
    IF k > Len(CARD_TYPES) THEN o
    ELSE IF Search(CardTypePattern(CARD_TYPES[k]), 0, txt).m
         THEN Store(o, "card_type", Str(Upper(CARD_TYPES[k])), 95)
         ELSE CardTypeFrom(o, txt, k + 1)

CardTypeStep(o, txt) == CardTypeFrom(o, txt, 1)

\* next((g for g in m.groups() if g and re.fullmatch(r'\d{4}', g)), None)
FirstFourDigits(groups) ==
    LET g == SelectSeq(Truthy(groups), FullMatch4)
    IN  IF g = <<>> THEN None ELSE Str(g[1])

Last4Step(o, txt) ==
    LET m == Search(RE_LAST4, 2, txt)
    IN  IF m.m THEN Store(o, "last4", FirstFourDigits(m.groups), 95) ELSE o

\* parse_dates catches every exception, so the except branch of lines
\* 103-105 is never entered
StatementPeriodStep(o, txt) ==
    LET m == Search(RE_STATEMENT_PERIOD, 4, txt)
    IN  IF m.m
        THEN LET groups == SelectSeq(Truthy(m.groups), HasDigit)
             IN  IF Len(groups) >= 2
                 THEN Store(o, "statement_period",
                            Dict2(parse_dates(groups[1]), parse_dates(groups[2])), 90)
                 ELSE o
        ELSE o

DueDateStep(o, txt) ==
    LET m == Search(RE_DUE_DATE, 1, txt)
    IN  IF m.m
        THEN LET groups == SelectSeq(Truthy(m.groups), HasDigit)
             IN  IF groups # <<>> THEN Store(o, "due_date", Str(parse_dates(groups[1])), 95)
                 ELSE o
        ELSE o

\* amt.replace(',', '').replace('(', '-').replace(')', '')
CleanAmount(amt) == Replace(Replace(Replace(amt, ",", ""), "(", "-"), ")", "")

TotalBalanceStep(o, txt) ==
    LET m == Search(RE_TOTAL_BAL, 1, txt)
    IN  IF m.m
        THEN LET amt == SelectSeq(Truthy(m.groups), HasDigit)
             IN  IF amt # <<>> THEN Store(o, "total_balance", Str(CleanAmount(amt[1])), 95)
                 ELSE o
        ELSE o

extract_fields_from_text(txt) ==
    TotalBalanceStep(DueDateStep(StatementPeriodStep(Last4Step(CardTypeStep(NewOut, txt), txt), txt), txt), txt)

-----------------------------------------------------------------------------
(* extract_transactions_tables.  A document is [path, pages]; a page holds  *)
(* what pdfplumber gives for it: text, the outcome of extract_text();       *)
(* tables, the outcome of extract_tables(); image, what pytesseract reads   *)
(* from the page's image.  An outcome is Raise or a value.  A table is a    *)
(* sequence of rows, a row a sequence of cells, a cell None or Str(s).      *)

Raise == [t |-> "raise"]

List(v) == [t |-> "list", v |-> v]

\* Python's "not v" for a cell
Falsy(v) == v = None \/ v = Str("")

\* header[i] if i < len(header) and header[i] else f"col{i}", i from 0
Label(header, i) ==
    IF i < Len(header) /\ ~Falsy(header[i + 1]) THEN header[i + 1].v ELSE "col" \o Decimal(i)

\* row[i] if i < len(row) else "", i from 0
Value(row, i) == IF i < Len(row) THEN row[i + 1] ELSE Str("")

\* the column count taken from the header alone
HeaderLength(header, row) == Len(header)

\* max(len(header), len(row))
ColumnCount(header, row) == IF Len(header) >= Len(row) THEN Len(header) ELSE Len(row)

\* the dict comprehension of line 73 over range(n): a later i replaces the
\* value an earlier i stored under the same label
RECURSIVE MappingUpTo(_, _, _)
MappingUpTo(header, row, n) ==
    IF n = 0 THEN << >>
    ELSE (Label(header, n - 1) :> Value(row, n - 1)) @@ MappingUpTo(header, row, n - 1)

Mapping(header, row) == MappingUpTo(header, row, ColumnCount(header, row))

\* df_rows after the first k rows of t[1:]
RECURSIVE DfRows(_, _)
DfRows(t, k) == IF k = 0 THEN <<>> ELSE Append(DfRows(t, k - 1), Mapping(t[1], t[k + 1]))

\* lines 67-76 without the test of line 75
TableEntriesUnfiltered(t, page_number) ==
    IF t = <<>> THEN <<>>
    ELSE <<[page |-> page_number, rows |-> DfRows(t, Len(t) - 1)]>>

\* what lines 67-76 append to res for the table t of page page_number
TableEntries(t, page_number) ==
    IF t = <<>> THEN <<>>
    ELSE LET df_rows == DfRows(t, Len(t) - 1)
         IN  IF df_rows # <<>> THEN <<[page |-> page_number, rows |-> df_rows]>> ELSE <<>>

\* lines 62-65
ExtractTables(page) == IF page.tables = Raise THEN <<>> ELSE page.tables.v

\* what the first k tables of a page append to res
RECURSIVE PageEntriesUpTo(_, _, _)
PageEntriesUpTo(page, page_number, k) ==
    IF k = 0 THEN <<>>
    ELSE PageEntriesUpTo(page, page_number, k - 1)
         \o TableEntries(ExtractTables(page)[k], page_number)

PageEntries(page, page_number) ==
    PageEntriesUpTo(page, page_number, Len(ExtractTables(page)))

\* res after the first k pages
RECURSIVE TablesUpTo(_, _)
TablesUpTo(doc, k) ==
    IF k = 0 THEN <<>> ELSE TablesUpTo(doc, k - 1) \o PageEntries(doc.pages[k], k)

extract_transactions_tables(doc) == TablesUpTo(doc, Len(doc.pages))

-----------------------------------------------------------------------------
(* text_from_pdf, ocr_pdf_text, parse_statement *)

\* "\n".join(a)
RECURSIVE Join(_)
Join(a) ==
    IF a = <<>> THEN ""
    ELSE IF Len(a) = 1 THEN a[1]
    ELSE Join(SubSeq(a, 1, Len(a) - 1)) \o "\n" \o a[Len(a)]

\* lines 28-31
PageText(page) == IF page.text = Raise \/ Falsy(page.text) THEN "" ELSE page.text.v

RECURSIVE TextPages(_, _)
TextPages(doc, k) ==
    IF k = 0 THEN <<>> ELSE Append(TextPages(doc, k - 1), PageText(doc.pages[k]))

text_from_pdf(doc) == Join(TextPages(doc, Len(doc.pages)))

RECURSIVE OcrTexts(_, _)
OcrTexts(doc, k) ==
    IF k = 0 THEN <<>> ELSE Append(OcrTexts(doc, k - 1), doc.pages[k].image)

\* ocr_pdf_text with the module's OCR_AVAILABLE being available
ocr_pdf_text(doc, available) ==
    IF ~available THEN Raise ELSE Str(Join(OcrTexts(doc, Len(doc.pages))))

\* the condition of line 131 without its last conjunct
FallbackWhateverTheBackend(txt, fallback, available) == Strip(txt) = "" /\ fallback

\* the condition of line 131 without strip()
FallbackOnEmptyOnly(txt, fallback, available) == txt = "" /\ fallback /\ available

\* the condition of line 131
FallbackCondition(txt, fallback, available) == Strip(txt) = "" /\ fallback /\ available

\* the slice bound of line 142
SnippetLength == 2000

\* text[:2000]
Snippet(txt) == IF Len(txt) <= SnippetLength THEN txt ELSE SubSeq(txt, 1, SnippetLength)

-----------------------------------------------------------------------------
(* The texts the field extractor is run on *)

\* the longest run of asterisks in a text
MaxStars == 4

\* the longest run of digits after a label or after asterisks
MaxRun == 5

RECURSIVE Stars(_)
Stars(n) == IF n = 0 THEN "" ELSE "*" \o Stars(n - 1)

CardWords == {"", "VISA", "visa", "MasterCard", "Amex", "American Express", "Discover", "Visas", "card"}

CardTexts == {a \o sep \o b : a \in CardWords, sep \in {" ", ""}, b \in CardWords}

Last4Before == {"", "Card 9999 ", "x"}

Last4After == {"", "0", " ok"}

Last4Labels == {"Account", "Acct", "card"}

Last4Connectors == {" ending in ", " ending ", " Number ", " No. ", "#", ": ", " ", ""}

Last4Texts ==
    {pre \o lab \o con \o SubSeq("1234567", 1, n) \o suf :
        pre \in Last4Before, lab \in Last4Labels, con \in Last4Connectors,
        n \in 3..MaxRun, suf \in Last4After}
    \cup
    {pre \o Stars(k) \o SubSeq("5678901", 1, n) \o suf :
        pre \in Last4Before, k \in 1..MaxStars, n \in 3..MaxRun, suf \in Last4After}

BalanceLabels ==
    {"Total Balance", "Total-Balance", "Statement Balance", "New Balance", "Balance Due",
     "Amount Due", "balance due", "Balance"}

BalanceTexts ==
    {lab \o sep \o open \o num \o close :
        lab \in BalanceLabels, sep \in {"", ":", ": ", " "}, open \in {"", "$", "(", "($"},
        num \in {"1,234.56", "50.00", "-"}, close \in {"", ")"}}

Dates == {"Jan 1, 2024", "Feb 1, 2024", "1/1/2024", "13/2/2024", "Feb 30, 2024"}

PeriodTexts ==
    {lab \o sep \o d1 \o dash \o d2 :
        lab \in {"Statement Period", "Billing Period", "Statement Dates"},
        sep \in {": ", " - "}, d1 \in Dates, dash \in {" to ", " - ", EnDash, " "}, d2 \in Dates}

DueTexts ==
    {lab \o sep \o d :
        lab \in {"Payment Due Date", "Due Date", "Payment Due", "Due"},
        sep \in {": ", " ", ":"}, d \in Dates}

\* a statement: one line for each of the fields it shows
StatementTexts ==
    {card \o acct \o period \o due \o bal :
        card \in {"", "Mastercard\n"}, acct \in {"", "Account ending in 1234\n"},
        period \in {"", "Statement Period: Jan 1, 2024 to Feb 1, 2024\n"},
        due \in {"", "Payment Due Date: 2/25/2024\n"},
        bal \in {"", "New Balance: 1,234.56\n"}}

Texts == CardTexts \cup Last4Texts \cup BalanceTexts \cup PeriodTexts \cup DueTexts \cup StatementTexts

-----------------------------------------------------------------------------
(* The documents the table normaliser and the assembler are run on *)

\* the most cells of a header and of a row
MaxCols == 2

\* the most data rows of a table
MaxRows == 2

\* the most pages of a document
MaxPages == 2

\* the sequences of exactly k and of at most n elements of S
RECURSIVE Tuples(_, _)
Tuples(S, k) == IF k = 0 THEN {<<>>} ELSE {Append(a, x) : a \in Tuples(S, k - 1), x \in S}

TuplesUpTo(S, n) == UNION {Tuples(S, k) : k \in 0..n}

HeaderCells == {Str("Date"), Str("Amount"), Str("col1"), Str(""), None}

\* cell i (from 0) of data row r: its text tells its place
Cell(r, i) == Str("r" \o Decimal(r) \o "c" \o Decimal(i))

RECURSIVE Row(_, _)
Row(r, n) == IF n = 0 THEN <<>> ELSE Append(Row(r, n - 1), Cell(r, n - 1))

\* data rows of the lengths lens
RECURSIVE Rows(_)
Rows(lens) ==
    IF lens = <<>> THEN <<>>
    ELSE Append(Rows(SubSeq(lens, 1, Len(lens) - 1)), Row(Len(lens), lens[Len(lens)]))

\* a header of any cells and data rows of any lengths
RichTables ==
    {<<header>> \o Rows(lens) :
        header \in TuplesUpTo(HeaderCells, MaxCols), lens \in TuplesUpTo(0..MaxCols, MaxRows)}

Page(txt, tables, image) == [text |-> txt, tables |-> tables, image |-> image]

Document(pages) == [path |-> "statement.pdf", pages |-> pages]

RichDocuments == {Document(<<Page(None, List(<<t>>), "")>>) : t \in RichTables}

\* a table of one column with k data rows
RECURSIVE PlainTable(_)
PlainTable(k) ==
    IF k = 0 THEN <<<<Str("Date")>>>> ELSE Append(PlainTable(k - 1), Row(k, 1))

\* the tables of a page: empty grids, headers alone, and tables that differ in
\* their number of data rows
TablePages ==
    {Page(None, tables, "") :
        tables \in {Raise, List(<<>>), List(<<PlainTable(1)>>), List(<<<<>>, PlainTable(2)>>),
                    List(<<PlainTable(1), PlainTable(2)>>), List(<<PlainTable(2), PlainTable(1)>>),
                    List(<<PlainTable(0), PlainTable(1), <<>>, PlainTable(3)>>)}}

PagedDocuments == {Document(pages) : pages \in TuplesUpTo(TablePages, MaxPages)}

TableDocuments == RichDocuments \cup PagedDocuments

\* a page text longer than the excerpt, with a network name after the excerpt's end
LongText ==
    LET a == "xxxxxxxxxx"
        b == a \o a \o a \o a \o a \o a \o a \o a \o a \o a
        c == b \o b \o b \o b \o b
    IN  c \o c \o c \o c \o " Discover"

ParsePages ==
    {Page(txt, Raise, image) :
        txt \in {Raise, None, Str(" "), Str("Visa")}, image \in {"", "Amex"}}

\* every page of a document of the assembler has the tables tables
WithTables(pages, tables) == [k \in DOMAIN pages |-> [pages[k] EXCEPT !.tables = tables]]

ParseDocuments ==
    {Document(WithTables(pages, tables)) :
        pages \in TuplesUpTo(ParsePages, MaxPages),
        tables \in {Raise, List(<<PlainTable(1)>>)}}
    \cup {Document(<<Page(Str(LongText), List(<<PlainTable(1)>>), "Amex")>>)}

NoDocument == Document(<<>>)

-----------------------------------------------------------------------------
(* The steps of the three functions *)

\* lines 82-86
CardType ==
    /\ pc = "card_type"
    /\ out' = CardTypeStep(out, text)
    /\ pc' = "last4"
    /\ UNCHANGED <<text, pdf, use_ocr_fallback, OCR_AVAILABLE, ocr_calls, res, result, p, call>>

\* lines 88-92
Last4 ==
    /\ pc = "last4"
    /\ out' = Last4Step(out, text)
    /\ pc' = "statement_period"
    /\ UNCHANGED <<text, pdf, use_ocr_fallback, OCR_AVAILABLE, ocr_calls, res, result, p, call>>

\* lines 94-105
StatementPeriod ==
    /\ pc = "statement_period"
    /\ out' = StatementPeriodStep(out, text)
    /\ pc' = "due_date"
    /\ UNCHANGED <<text, pdf, use_ocr_fallback, OCR_AVAILABLE, ocr_calls, res, result, p, call>>

\* lines 107-112
DueDate ==
    /\ pc = "due_date"
    /\ out' = DueDateStep(out, text)
    /\ pc' = "total_balance"
    /\ UNCHANGED <<text, pdf, use_ocr_fallback, OCR_AVAILABLE, ocr_calls, res, result, p, call>>

\* lines 114-126; in parse_statement line 135 is next
TotalBalance ==
    /\ pc = "total_balance"
    /\ out' = TotalBalanceStep(out, text)
    /\ pc' = IF call = "parse_statement" THEN "tables" ELSE "done"
    /\ UNCHANGED <<text, pdf, use_ocr_fallback, OCR_AVAILABLE, ocr_calls, res, result, p, call>>

\* lines 61-76 for one page
TablesPage ==
    /\ pc = "tables"
    /\ p <= Len(pdf.pages)
    /\ res' = res \o PageEntries(pdf.pages[p], p)
    /\ p' = p + 1
    /\ UNCHANGED <<pc, text, out, pdf, use_ocr_fallback, OCR_AVAILABLE, ocr_calls, result, call>>

\* line 77; in parse_statement line 138 is next
TablesReturn ==
    /\ pc = "tables"
    /\ p > Len(pdf.pages)
    /\ pc' = IF call = "parse_statement" THEN "assemble" ELSE "returned"
    /\ UNCHANGED <<text, out, pdf, use_ocr_fallback, OCR_AVAILABLE, ocr_calls, res, result, p, call>>

\* line 130
TextFromPdf ==
    /\ pc = "text_from_pdf"
    /\ text' = text_from_pdf(pdf)
    /\ pc' = "fallback"
    /\ UNCHANGED <<out, pdf, use_ocr_fallback, OCR_AVAILABLE, ocr_calls, res, result, p, call>>

\* lines 131-133 when the condition holds; what ocr_pdf_text raises goes to the caller
OcrFallback ==
    /\ pc = "fallback"
    /\ FallbackCondition(text, use_ocr_fallback, OCR_AVAILABLE)
    /\ ocr_calls' = ocr_calls + 1
    /\ LET r == ocr_pdf_text(pdf, OCR_AVAILABLE)
       IN  IF r = Raise
           THEN pc' = "raised" /\ text' = text
           ELSE pc' = "card_type" /\ text' = r.v
    /\ UNCHANGED <<out, pdf, use_ocr_fallback, OCR_AVAILABLE, res, result, p, call>>

\* line 131 when the condition does not hold
NoFallback ==
    /\ pc = "fallback"
    /\ ~FallbackCondition(text, use_ocr_fallback, OCR_AVAILABLE)
    /\ pc' = "card_type"
    /\ UNCHANGED <<text, out, pdf, use_ocr_fallback, OCR_AVAILABLE, ocr_calls, res, result, p, call>>

\* lines 138-144
Assemble ==
    /\ pc = "assemble"
    /\ result' = [source_file |-> pdf.path, extracted |-> out, transactions_tables |-> res,
                  raw_text_snippet |-> Snippet(text)]
    /\ pc' = "returned"
    /\ UNCHANGED <<text, out, pdf, use_ocr_fallback, OCR_AVAILABLE, ocr_calls, res, p, call>>

-----------------------------------------------------------------------------
(* Specification Spec: extract_fields_from_text on a text *)

Init ==
    /\ call = "extract_fields_from_text"
    /\ pc = "card_type"
    /\ text \in Texts
    /\ out = NewOut
    /\ pdf = NoDocument
    /\ use_ocr_fallback = FALSE
    /\ OCR_AVAILABLE = FALSE
    /\ ocr_calls = 0
    /\ res = <<>>
    /\ result = None
    /\ p = 1

Next == CardType \/ Last4 \/ StatementPeriod \/ DueDate \/ TotalBalance

Spec == Init /\ [][Next]_vars

(* Specification SpecTables: extract_transactions_tables on a document *)

InitTables ==
    /\ call = "extract_transactions_tables"
    /\ pc = "tables"
    /\ text = ""
    /\ out = NewOut
    /\ pdf \in TableDocuments
    /\ use_ocr_fallback = FALSE
    /\ OCR_AVAILABLE = FALSE
    /\ ocr_calls = 0
    /\ res = <<>>
    /\ result = None
    /\ p = 1

NextTables == TablesPage \/ TablesReturn

SpecTables == InitTables /\ [][NextTables]_vars

(* Specification SpecParse: parse_statement on a document *)

InitParse ==
    /\ call = "parse_statement"
    /\ pc = "text_from_pdf"
    /\ text = ""
    /\ out = NewOut
    /\ pdf \in ParseDocuments
    /\ use_ocr_fallback \in BOOLEAN
    /\ OCR_AVAILABLE \in BOOLEAN
    /\ ocr_calls = 0
    /\ res = <<>>
    /\ result = None
    /\ p = 1

NextParse ==
    \/ TextFromPdf \/ OcrFallback \/ NoFallback
    \/ CardType \/ Last4 \/ StatementPeriod \/ DueDate \/ TotalBalance
    \/ TablesPage \/ TablesReturn \/ Assemble

SpecParse == InitParse /\ [][NextParse]_vars

-----------------------------------------------------------------------------
(* Properties of the field extractor *)

Conf == out.confidence

\* sub occurs in s, letter case ignored
Contains(s, sub) ==
    \E i \in 1..(Len(s) - Len(sub) + 1) : EqIgnoreCase(SubSeq(s, i, i + Len(sub) - 1), sub)

\* sub occurs in s between two places where no word goes on
OccursWholeWord(s, sub) ==
    \E i \in 1..(Len(s) - Len(sub) + 1) :
        /\ EqIgnoreCase(SubSeq(s, i, i + Len(sub) - 1), sub)
        /\ ~IsWordAt(s, i - 1)
        /\ ~IsWordAt(s, i + Len(sub))

\* the words one of which every match of a field's pattern holds
Keywords(f) ==
    CASE f = "card_type" -> {"visa", "mastercard", "amex", "american express", "discover"}
      [] f = "last4" -> {"account", "acct", "card", "**"}
      [] f = "statement_period" -> {"statement", "billing"}
      [] f = "due_date" -> {"due"}
      [] f = "total_balance" -> {"balance", "amount"}

NoKeyword(f, s) == \A w \in Keywords(f) : ~Contains(s, w)

\* C1 as stated: a field the text does not show is omitted from the value map
\* (its key is absent) and from the Conf map.
C1_Omitted ==
    pc = "done" =>
        \A f \in FIELDS : NoKeyword(f, text) => f \notin DOMAIN out /\ f \notin DOMAIN Conf

\* C1, amended: the value map always holds the five keys; a field has no
\* Conf entry exactly when its value is None, it is never the empty
\* string, and a field the text does not show is None without a Conf
\* entry; so with no field shown all five are None and the Conf map is empty.
C1_NoneNotOmitted ==
    pc = "done" =>
        /\ DOMAIN out = FIELDS \cup {"confidence"}
        /\ DOMAIN Conf \subseteq FIELDS
        /\ \A f \in FIELDS :
            /\ out[f] = None <=> f \notin DOMAIN Conf
            /\ out[f] # Str("")
            /\ NoKeyword(f, text) => out[f] = None /\ f \notin DOMAIN Conf
        /\ (\A f \in FIELDS : NoKeyword(f, text)) =>
               Conf = << >> /\ \A f \in FIELDS : out[f] = None

C1_Witness ==
    /\ pc = "done"
    /\ NoKeyword("card_type", text) /\ NoKeyword("due_date", text)
    /\ out.card_type = None /\ out.due_date = None
    /\ out.last4 = Str("1234") /\ out.total_balance = Str("1234.56")
    /\ DOMAIN Conf = {"last4", "total_balance"}

PeriodDashes == {" to ", " - ", EnDash}

\* C2 as stated: a period label, a date D1, a separator and a date D2 give
\* start from D1 and end from D2, Conf 0.9.
C2_StartEnd ==
    pc = "done" =>
        \A lab \in {"Statement Period", "Billing Period", "Statement Dates"}, sep \in {": ", " - "},
           d1 \in Dates, dash \in PeriodDashes, d2 \in Dates :
            text = lab \o sep \o d1 \o dash \o d2 =>
                /\ out.statement_period = Dict2(parse_dates(d1), parse_dates(d2))
                /\ "statement_period" \in DOMAIN Conf
                /\ Conf["statement_period"] = 90

RemoveCommas(num) == Replace(num, ",", "")

\* C3 as stated: a balance label, ':' or whitespace, an optional '$' and a
\* number, the whole optionally in parentheses, give the number without commas,
\* with '-' in front of it when it was parenthesised, Conf 0.95.
C3_Balance ==
    pc = "done" =>
        \A lab \in {"Total Balance", "Statement Balance", "New Balance", "Balance Due", "Amount Due"},
           sep \in {":", ": ", " "}, dollar \in {"", "$"}, num \in {"1,234.56", "50.00"},
           paren \in BOOLEAN :
            text = lab \o sep \o (IF paren THEN "(" ELSE "") \o dollar \o num
                       \o (IF paren THEN ")" ELSE "") =>
                /\ out.total_balance = Str((IF paren THEN "-" ELSE "") \o RemoveCommas(num))
                /\ "total_balance" \in DOMAIN Conf
                /\ Conf["total_balance"] = 95

\* the number of digits of s from index i on
RECURSIVE DigitsFrom(_, _)
DigitsFrom(s, i) == IF i <= Len(s) /\ At(s, i) \in Digit THEN 1 + DigitsFrom(s, i + 1) ELSE 0

\* a run of two or more asterisks ends at index i of s
StarRunEnds(s, i) == i >= 2 /\ At(s, i) = "*" /\ At(s, i - 1) = "*" /\ At(s, i + 1) # "*"

\* a reported last4 is four digits with Conf 0.95
Last4WellFormed ==
    /\ out.last4 # None => out.last4.t = "str" /\ FullMatch4(out.last4.v)
                           /\ "last4" \in DOMAIN Conf /\ Conf["last4"] = 95
    /\ out.last4 = None => "last4" \notin DOMAIN Conf

\* with no label word in s, a run of asterisks followed by 3 or by 5 digits gives no last4
NoShortOrLongRun ==
    (/\ \A w \in {"account", "acct", "card"} : ~Contains(text, w)
     /\ \A i \in 1..Len(text) : StarRunEnds(text, i) => DigitsFrom(text, i + 1) \in {3, 5})
        => out.last4 = None

\* C4 as stated: every text containing 'Account ending in 1234' gives 1234 and
\* every text containing '****5678' gives 5678.
C4_Containing ==
    pc = "done" =>
        /\ Contains(text, "Account ending in 1234") => out.last4 = Str("1234")
        /\ Contains(text, "****5678") => out.last4 = Str("5678")
        /\ Last4WellFormed
        /\ NoShortOrLongRun

\* phrase occurs in s as whole words, and no keyword of last4 occurs before it
FirstCandidate(s, phrase) ==
    \E i \in 1..(Len(s) - Len(phrase) + 1) :
        /\ SubSeq(s, i, i + Len(phrase) - 1) = phrase
        /\ ~IsWordAt(s, i - 1)
        /\ ~IsWordAt(s, i + Len(phrase))
        /\ NoKeyword("last4", SubSeq(s, 1, i - 1))

\* the same for a phrase that starts with asterisks: what is before it does not count as a word
FirstMasked(s, phrase) ==
    \E i \in 1..(Len(s) - Len(phrase) + 1) :
        /\ SubSeq(s, i, i + Len(phrase) - 1) = phrase
        /\ ~IsWordAt(s, i + Len(phrase))
        /\ NoKeyword("last4", SubSeq(s, 1, i - 1))

\* C4, amended: 'Account ending in 1234' gives 1234, and '****5678' gives 5678,
\* when the phrase is not followed by a further word character and nothing before
\* it is a label word (Account, Acct, Card) or two asterisks; a reported last4 is
\* four digits with Conf 0.95, and 3 or 5 digits after asterisks give none.
C4_FirstMatch ==
    pc = "done" =>
        /\ FirstCandidate(text, "Account ending in 1234") => out.last4 = Str("1234")
        /\ FirstMasked(text, "****5678") => out.last4 = Str("5678")
        /\ Last4WellFormed
        /\ NoShortOrLongRun

C4_Witness ==
    /\ pc = "done"
    /\ text = "x****5678 ok"
    /\ FirstMasked(text, "****5678")
    /\ out.last4 = Str("5678")

\* the first network of CARD_TYPES that occurs in the text as a whole word
FirstNetwork(s) ==
    LET hits == {k \in 1..Len(CARD_TYPES) : OccursWholeWord(s, CARD_TYPES[k])}
    IN  IF hits = {} THEN 0 ELSE CHOOSE k \in hits : \A j \in hits : k <= j

\* C5: card_type is the first entry of the list that occurs in the text as a
\* whole word, whatever its case and its place in the text, with Conf
\* 0.95; with no entry in the text it is not reported and has no Conf.
C5_CardType ==
    pc # "card_type" =>
        LET k == FirstNetwork(text)
        IN  IF k = 0
            THEN out.card_type = None /\ "card_type" \notin DOMAIN Conf
            ELSE /\ out.card_type = Str(<<"VISA", "MASTERCARD", "AMEX", "AMERICAN EXPRESS", "DISCOVER">>[k])
                 /\ "card_type" \in DOMAIN Conf
                 /\ Conf["card_type"] = 95

C5_Witness ==
    /\ pc = "done"
    /\ text = "Discover visa"
    /\ out.card_type = Str("VISA")

-----------------------------------------------------------------------------
(* Properties of the table normaliser *)

\* the tables found on page k, none when the page's extraction fails
Discovered(doc, k) == IF doc.pages[k].tables = Raise THEN <<>> ELSE doc.pages[k].tables.v

\* the most tables on a page of the document
MostTables(doc) ==
    LET n == {Len(Discovered(doc, k)) : k \in 1..Len(doc.pages)}
    IN  IF n = {} THEN 0 ELSE CHOOSE m \in n : \A j \in n : j <= m

\* the places <<page, index on the page>> of the tables that have a data row
WithDataRows(doc) ==
    {q \in (1..Len(doc.pages)) \X (1..MostTables(doc)) :
        q[2] <= Len(Discovered(doc, q[1])) /\ Len(Discovered(doc, q[1])[q[2]]) >= 2}

Before(x, y) == x[1] < y[1] \/ (x[1] = y[1] /\ x[2] < y[2])

\* the n-th of these places in page order and, on a page, in the order of discovery
Place(doc, n) ==
    CHOOSE q \in WithDataRows(doc) :
        Cardinality({x \in WithDataRows(doc) : Before(x, q)}) = n - 1

TableAt(doc, q) == Discovered(doc, q[1])[q[2]]

Range(f) == {f[x] : x \in DOMAIN f}

Longer(a, b) == IF a >= b THEN a ELSE b

\* the label of column i (from 0) under a header
ColumnLabel(header, i) ==
    IF i < Len(header) /\ header[i + 1] \notin {None, Str("")}
    THEN header[i + 1].v ELSE "col" \o Decimal(i)

ColumnLabels(header, row) ==
    {ColumnLabel(header, i) : i \in 0..(Longer(Len(header), Len(row)) - 1)}

TablesReturned == call = "extract_transactions_tables" /\ pc = "returned"

\* C8 as stated: the record of a data row has max(len(header), len(row))
\* entries, one for each column index i, under header[i] or 'col<i>', holding
\* row[i] or the empty string.
C8_FullyRepresented ==
    TablesReturned /\ Len(res) = Cardinality(WithDataRows(pdf)) =>
        \A n \in 1..Len(res) :
            LET t == TableAt(pdf, Place(pdf, n))
            IN  \A r \in 1..(Len(t) - 1) :
                    LET rec == res[n].rows[r]
                        m == Longer(Len(t[1]), Len(t[r + 1]))
                    IN  /\ Cardinality(DOMAIN rec) = m
                        /\ \A i \in 0..(m - 1) :
                            /\ ColumnLabel(t[1], i) \in DOMAIN rec
                            /\ rec[ColumnLabel(t[1], i)] =
                                   (IF i < Len(t[r + 1]) THEN t[r + 1][i + 1] ELSE Str(""))

\* C9 as stated: all records of a table have the same set of labels.
C9_SameLabels ==
    TablesReturned =>
        \A n \in 1..Len(res) :
            \A r1, r2 \in 1..Len(res[n].rows) :
                DOMAIN res[n].rows[r1] = DOMAIN res[n].rows[r2]

\* C9, amended: the labels of a record are those of the columns
\* 0 .. max(len(header), len(row)) - 1 of its row, so the records of two rows of
\* a table have the same labels when the rows are equally long or both no longer
\* than the header, and the record of a longer row has the labels of a shorter one.
C9_LabelsPerRowLength ==
    TablesReturned /\ Len(res) = Cardinality(WithDataRows(pdf)) =>
        \A n \in 1..Len(res) :
            LET t == TableAt(pdf, Place(pdf, n))
                rows == res[n].rows
            IN  /\ Len(rows) = Len(t) - 1
                /\ \A r \in 1..Len(rows) : DOMAIN rows[r] = ColumnLabels(t[1], t[r + 1])
                /\ \A r1, r2 \in 1..Len(rows) :
                    /\ (Len(t[r1 + 1]) = Len(t[r2 + 1])
                        \/ (Len(t[r1 + 1]) <= Len(t[1]) /\ Len(t[r2 + 1]) <= Len(t[1])))
                            => DOMAIN rows[r1] = DOMAIN rows[r2]
                    /\ Len(t[r1 + 1]) <= Len(t[r2 + 1]) => DOMAIN rows[r1] \subseteq DOMAIN rows[r2]

C9_Witness ==
    /\ TablesReturned
    /\ Len(res) = 1
    /\ pdf.pages[1].tables = List(<<  <<<<Str("Date")>>, Row(1, 1), Row(2, 2)>>  >>)
    /\ DOMAIN res[1].rows[1] = {"Date"}
    /\ DOMAIN res[1].rows[2] = {"Date", "col1"}

\* C10: the output has one entry for each table with a data row, and none for
\* any other table nor for a page whose extraction fails; the entries are in page
\* order and on a page in the order of discovery; an entry has its page's number
\* and one record for each data row, in row order.
C10_Entries ==
    TablesReturned =>
        /\ Len(res) = Cardinality(WithDataRows(pdf))
        /\ \A n \in 1..Len(res) :
            LET q == Place(pdf, n)
                t == TableAt(pdf, q)
            IN  /\ res[n].page = q[1]
                /\ Len(res[n].rows) = Len(t) - 1
                /\ \A r \in 1..(Len(t) - 1) :
                    Range(res[n].rows[r]) \subseteq Range(t[r + 1]) \cup {Str("")}

C10_Witness ==
    /\ TablesReturned
    /\ Len(pdf.pages) = 2
    /\ pdf.pages[1].tables = Raise
    /\ pdf.pages[2].tables = List(<<PlainTable(0), PlainTable(1), <<>>, PlainTable(3)>>)
    /\ Len(res) = 2
    /\ res[1].page = 2 /\ Len(res[1].rows) = 1
    /\ res[2].page = 2 /\ Len(res[2].rows) = 3

-----------------------------------------------------------------------------
(* Properties of the assembler *)

Blank(s) == \A i \in 1..Len(s) : At(s, i) \in Space

\* the text of the primary backend and the text of the image-recognition backend
Primary == text_from_pdf(pdf)

Recognised == Join(OcrTexts(pdf, Len(pdf.pages)))

\* s is t cut to its first 2000 characters
Excerpt(s, t) ==
    /\ Len(s) = (IF Len(t) <= 2000 THEN Len(t) ELSE 2000)
    /\ s = SubSeq(t, 1, Len(s))

FallbackWanted == call = "parse_statement" /\ Blank(Primary) /\ use_ocr_fallback

C7_FallbackPolicy ==
    call = "parse_statement" =>
        LET invoked == Blank(Primary) /\ use_ocr_fallback /\ OCR_AVAILABLE
        IN  IF pc \in {"text_from_pdf", "fallback"}
            THEN ocr_calls = 0
            ELSE /\ ocr_calls = (IF invoked THEN 1 ELSE 0)
                 /\ text = (IF invoked THEN Recognised ELSE Primary)
                 /\ pc = "returned" =>
                     /\ result.extracted = extract_fields_from_text(text)
                     /\ Excerpt(result.raw_text_snippet, text)
                     /\ result.transactions_tables = extract_transactions_tables(pdf)
                     /\ result.source_file = pdf.path

C7_Witness ==
    /\ call = "parse_statement" /\ pc = "returned"
    /\ ocr_calls = 1
    /\ Primary = " \n"
    /\ result.raw_text_snippet = "Amex\n"
    /\ result.extracted.card_type = Str("AMEX")
    /\ Len(result.transactions_tables) = 2

=============================================================================
